---- MODULE Spec2Model ----
(***************************************************************************)
(* Model of credit.py, the copyright notice manager.                       *)
(*                                                                         *)
(* Text is a sequence of units.  A unit is one character, except that the  *)
(* literal words the program's patterns look for (import, from, Copyright, *)
(* a four digit year, the owner name, ...) are carried as one unit each.   *)
(* Offsets count units and start at 0, as Python's string indices do.      *)
(***************************************************************************)
EXTENDS Integers, Sequences, FiniteSets, TLC

NL == "\n"
SP == " "
DQ == "\""
SQ == "'"

NOTICE1 == "Not to be shared, replicated, or used without prior consent."
NOTICE2 == "Contact me for any enquiries"

USERNAME == "Kars"
GITHUB == "github.com/kars1996"
CURRENT_YEAR == 2026

\* The per-invocation overrides (--username, --github) the model draws from.
OTHER_NAME == "Bob"
OTHER_GITHUB == "github.com/bob"
NONE == "None"

\* str(): the decimal numeral of a year.
RECURSIVE Digits(_)
Digits(n) ==
    IF n < 10 THEN <<n>> ELSE Append(Digits(n \div 10), n % 10)

DigitChar(d) ==
    CASE d = 0 -> "0" [] d = 1 -> "1" [] d = 2 -> "2" [] d = 3 -> "3"
      [] d = 4 -> "4" [] d = 5 -> "5" [] d = 6 -> "6" [] d = 7 -> "7"
      [] d = 8 -> "8" [] d = 9 -> "9"

RECURSIVE Concat(_)
Concat(ds) ==
    IF ds = <<>> THEN "" ELSE DigitChar(Head(ds)) \o Concat(Tail(ds))

str(n) == Concat(Digits(n))

\* \d{4}: the four digit numerals of the model's texts.
YEARS == {str(CURRENT_YEAR - 1), str(CURRENT_YEAR)}

(***************************************************************************)
(* Character classes of the patterns, as sets of units.                    *)
(***************************************************************************)
WS == {SP, NL}

WORDS ==
    {"import", "from", "require", "const", "let", "var", "type", "begin", "end",
     "Copyright", "a", "b", "c", "f", "x", "sh", USERNAME, OTHER_NAME} \cup YEARS

PUNCT == {"/", "*", SQ, DQ, ";", "(", ")", "#", "!", "=", "{", "}", ",", "©"}

PHRASES == {"credit-ignore", NOTICE1, NOTICE2, GITHUB, OTHER_GITHUB}

\* . under re.DOTALL
ANY == WS \cup WORDS \cup PUNCT \cup PHRASES

\* . without re.DOTALL
DOT == ANY \ {NL}

QUOTE == {SQ, DQ}

\* [\w\s{},*]
IMPORT_CLASS == WORDS \cup WS \cup {"{", "}", ",", "*"}

\* [\w\s{}]
REQUIRE_CLASS == WORDS \cup WS \cup {"{", "}"}

(***************************************************************************)
(* Regular expressions.  A pattern is a sequence of alternatives, tried in *)
(* order; an alternative is a sequence of items; an item is one unit of a  *)
(* class, a greedy or lazy repetition of a class, or an anchor.            *)
(***************************************************************************)
One(c) == [k |-> "one", c |-> c, min |-> 1]
Lit(u) == One({u})
Greedy(c, n) == [k |-> "greedy", c |-> c, min |-> n]
Lazy(c, n) == [k |-> "lazy", c |-> c, min |-> n]
Opt(c) == [k |-> "opt", c |-> c, min |-> 0]
\* ^ and $ under re.MULTILINE
Bol == [k |-> "bol", c |-> {}, min |-> 0]
Eol == [k |-> "eol", c |-> {}, min |-> 0]
\* (?:\n|$) without re.MULTILINE
NlOrEnd == [k |-> "nlOrEnd", c |-> {}, min |-> 0]

\* The items matching the units of s one after another.
Lits(s) == [j \in 1..Len(s) |-> Lit(s[j])]

Max(S) == CHOOSE m \in S : \A n \in S : n <= m
Min(S) == CHOOSE m \in S : \A n \in S : m <= n

\* How many units of class c follow offset pos.
RunLen(text, pos, c) ==
    Min({n \in 0..(Len(text) - pos) :
            pos + n = Len(text) \/ text[pos + n + 1] \notin c})

\* The end offset of the first way, in the backtracking order, in which
\* items[idx..] match text at offset pos; -1 when there is none.
RECURSIVE MatchFrom(_, _, _, _)
RECURSIVE TryGreedy(_, _, _, _, _, _)
RECURSIVE TryLazy(_, _, _, _, _, _)

\* The end offset r of a way that matched, or else what the next way gives.
OrElse(r, next) == IF r # -1 THEN r ELSE next

\* A greedy repetition gives back one unit at a time, down to lo units.
TryGreedy(items, idx, text, pos, n, lo) ==
    IF n < lo THEN -1
    ELSE OrElse(MatchFrom(items, idx + 1, text, pos + n),
                TryGreedy(items, idx, text, pos, n - 1, lo))

\* A lazy repetition takes one more unit at a time, up to hi units.
TryLazy(items, idx, text, pos, n, hi) ==
    IF n > hi THEN -1
    ELSE OrElse(MatchFrom(items, idx + 1, text, pos + n),
                TryLazy(items, idx, text, pos, n + 1, hi))

MatchFrom(items, idx, text, pos) ==
    IF idx > Len(items) THEN pos
    ELSE LET it == items[idx]
             atEnd == pos = Len(text)
         IN  CASE it.k = "one" ->
                    IF ~atEnd /\ text[pos + 1] \in it.c
                    THEN MatchFrom(items, idx + 1, text, pos + 1)
                    ELSE -1
               [] it.k = "greedy" ->
                    TryGreedy(items, idx, text, pos, RunLen(text, pos, it.c), it.min)
               [] it.k = "lazy" ->
                    TryLazy(items, idx, text, pos, it.min, RunLen(text, pos, it.c))
               [] it.k = "opt" ->
                    TryGreedy(items, idx, text, pos,
                              IF ~atEnd /\ text[pos + 1] \in it.c THEN 1 ELSE 0, 0)
               [] it.k = "bol" ->
                    IF pos = 0 \/ text[pos] = NL
                    THEN MatchFrom(items, idx + 1, text, pos)
                    ELSE -1
               [] it.k = "eol" ->
                    IF atEnd \/ text[pos + 1] = NL
                    THEN MatchFrom(items, idx + 1, text, pos)
                    ELSE -1
               [] it.k = "nlOrEnd" ->
                    IF ~atEnd /\ text[pos + 1] = NL
                    THEN MatchFrom(items, idx + 1, text, pos + 1)
                    ELSE IF atEnd THEN MatchFrom(items, idx + 1, text, pos)
                    ELSE -1

\* The end offset of the first alternative of alts[a..] that matches at pos.
RECURSIVE MatchAlts(_, _, _, _)
MatchAlts(alts, a, text, pos) ==
    IF a > Len(alts) THEN -1
    ELSE OrElse(MatchFrom(alts[a], 1, text, pos), MatchAlts(alts, a + 1, text, pos))

NoMatch == <<-1, -1>>

\* re.search from offset pos: the leftmost match, as <<start, end>>.
MatchAt(pos, r, next) == IF r # -1 THEN <<pos, r>> ELSE next

RECURSIVE SearchFrom(_, _, _)
SearchFrom(alts, text, pos) ==
    IF pos > Len(text) THEN NoMatch
    ELSE MatchAt(pos, MatchAlts(alts, 1, text, pos), SearchFrom(alts, text, pos + 1))

re_search(alts, text) == SearchFrom(alts, text, 0)

\* re.finditer: the successive non-overlapping matches, left to right.
RECURSIVE FindFrom(_, _, _)
RECURSIVE FindAfter(_, _, _)
FindAfter(alts, text, m) ==
    IF m = NoMatch THEN <<>>
    ELSE <<m>> \o FindFrom(alts, text, IF m[2] > m[1] THEN m[2] ELSE m[2] + 1)

FindFrom(alts, text, pos) == FindAfter(alts, text, SearchFrom(alts, text, pos))

re_finditer(alts, text) == FindFrom(alts, text, 0)

\* Python's slices text[a:b], text[a:] on 0-based offsets.
Slice(text, a, b) == SubSeq(text, a + 1, b)
SliceFrom(text, a) == SubSeq(text, a + 1, Len(text))

(***************************************************************************)
(* The language tables.                                                    *)
(***************************************************************************)
\* In the order of the dict: the first language listing the extension wins.
SUPPORTED_EXTENSIONS ==
    << <<"javascript", {".js", ".jsx"}>>,
       <<"typescript", {".ts", ".tsx"}>>,
       <<"golang", {".go"}>>,
       <<"python", {".py"}>>,
       <<"c", {".c", ".h"}>>,
       <<"cpp", {".cpp", ".hpp", ".cc", ".hh"}>>,
       <<"java", {".java"}>>,
       <<"csharp", {".cs"}>>,
       <<"ruby", {".rb"}>>,
       <<"php", {".php"}>> >>

C_STYLE == [block_start |-> <<"/", "*">>, block_end |-> <<"*", "/">>, line |-> <<"/", "/">>]

COMMENT_STYLES ==
    [l \in {"javascript", "typescript", "golang", "python", "c", "cpp", "java",
            "csharp", "ruby", "php"} |->
        CASE l = "python" ->
                [block_start |-> <<DQ, DQ, DQ>>, block_end |-> <<DQ, DQ, DQ>>,
                 line |-> <<"#">>]
          [] l = "ruby" ->
                [block_start |-> <<"=", "begin">>, block_end |-> <<"=", "end">>,
                 line |-> <<"#">>]
          [] OTHER -> C_STYLE]

\* COMMENT_STYLES.get(language, COMMENT_STYLES["javascript"])
StyleOf(language) ==
    IF language \in DOMAIN COMMENT_STYLES
    THEN COMMENT_STYLES[language]
    ELSE COMMENT_STYLES["javascript"]

\* What the lookup would give with another default tag.
RECURSIVE LanguageFromOrPython(_, _)
LanguageFromOrPython(extension, n) ==
    IF n > Len(SUPPORTED_EXTENSIONS) THEN "python"
    ELSE IF extension \in SUPPORTED_EXTENSIONS[n][2] THEN SUPPORTED_EXTENSIONS[n][1]
    ELSE LanguageFromOrPython(extension, n + 1)

RECURSIVE LanguageFrom(_, _)
LanguageFrom(extension, n) ==
    IF n > Len(SUPPORTED_EXTENSIONS) THEN "javascript"
    ELSE IF extension \in SUPPORTED_EXTENSIONS[n][2] THEN SUPPORTED_EXTENSIONS[n][1]
    ELSE LanguageFrom(extension, n + 1)

get_language_from_extension(extension) == LanguageFrom(extension, 1)

\* The template with year, name and github filled in (the .format of the
\* caller): both branches of the source build the same text.
get_copyright_template(language, year, name, github) ==
    LET style == StyleOf(language)
    IN  style.block_start
        \o <<NL, "Copyright", SP, "©", SP, year, SP, name, SP, "(", github, ")", NL>>
        \o <<NL, NOTICE1, NL, NOTICE2, NL>>
        \o style.block_end

(***************************************************************************)
(* The ignore marker and the existing-header detector.                     *)
(***************************************************************************)
\* (?://|#|/\*)\s*credit-ignore
IGNORE_PATTERN ==
    << Lits(<<"/", "/">>) \o <<Greedy(WS, 0), Lit("credit-ignore")>>,
       Lits(<<"#">>) \o <<Greedy(WS, 0), Lit("credit-ignore")>>,
       Lits(<<"/", "*">>) \o <<Greedy(WS, 0), Lit("credit-ignore")>> >>

\* What re.match in place of re.search would give: the marker is only seen
\* at the very start of the content.
IgnoreAtStart(content) == MatchAlts(IGNORE_PATTERN, 1, content, 0) # -1

should_ignore_file(content) == re_search(IGNORE_PATTERN, content) # NoMatch

COPY_GLYPH == <<"Copyright", SP, "©", SP>>
COPY_ASCII == <<"Copyright", SP, "(", "c", ")", SP>>

\* The four patterns, in the order of the list; each is a single alternative.
HeaderPatterns(language) ==
    LET style == StyleOf(language)
        block(mark) ==
            Lits(style.block_start) \o <<Greedy(WS, 0)>> \o Lits(mark)
            \o <<One(YEARS), Lazy(ANY, 0), Lit(USERNAME), Lazy(ANY, 0)>>
            \o Lits(style.block_end)
        line(mark) ==
            Lits(style.line) \o <<Lit(SP)>> \o Lits(mark)
            \o <<One(YEARS), Lazy(ANY, 0), Lit(USERNAME)>>
    IN  <<block(COPY_GLYPH), block(COPY_ASCII), line(COPY_GLYPH), line(COPY_ASCII)>>

\* match.group(1): the year the pattern captures, the first numeral of the match.
Group1(matched) == matched[Min({j \in 1..Len(matched) : matched[j] \in YEARS})]

NotFound == [has |-> FALSE, year |-> NONE, old_notice |-> <<>>]

Matched(matched) == [has |-> TRUE, year |-> Group1(matched), old_notice |-> matched]

HeaderAt(content, m, next) ==
    IF m # NoMatch THEN Matched(Slice(content, m[1], m[2])) ELSE next

\* What the loop would do over reversed(patterns): the last pattern of the
\* list that matches decides.
RECURSIVE LastHeader(_, _, _)
LastHeader(patterns, n, content) ==
    IF n > Len(patterns) THEN NotFound
    ELSE HeaderAt(content, re_search(<<patterns[Len(patterns) + 1 - n]>>, content),
                  LastHeader(patterns, n + 1, content))

\* for pattern in patterns: the first pattern that matches decides.
RECURSIVE FirstHeader(_, _, _)
FirstHeader(patterns, n, content) ==
    IF n > Len(patterns) THEN NotFound
    ELSE HeaderAt(content, re_search(<<patterns[n]>>, content),
                  FirstHeader(patterns, n + 1, content))

check_existing_copyright(content, language) ==
    FirstHeader(HeaderPatterns(language), 1, content)

(***************************************************************************)
(* The insertion-point locator.                                            *)
(***************************************************************************)
\* The four import patterns of javascript and typescript, joined by |.
JS_IMPORT_PATTERNS ==
    << \* import\s+[\w\s{},*]+\s+from\s+['"].*?['"];?
       <<Lit("import"), Greedy(WS, 1), Greedy(IMPORT_CLASS, 1), Greedy(WS, 1),
         Lit("from"), Greedy(WS, 1), One(QUOTE), Lazy(ANY, 0), One(QUOTE), Opt({";"})>>,
       \* import\s*\(['"].*?['"]\)
       <<Lit("import"), Greedy(WS, 0), Lit("("), One(QUOTE), Lazy(ANY, 0), One(QUOTE),
         Lit(")")>>,
       \* (?:const|let|var)\s+[\w\s{}]+\s*=\s*require\s*\(['"].*?['"]\);?
       <<One({"const", "let", "var"}), Greedy(WS, 1), Greedy(REQUIRE_CLASS, 1),
         Greedy(WS, 0), Lit("="), Greedy(WS, 0), Lit("require"), Greedy(WS, 0),
         Lit("("), One(QUOTE), Lazy(ANY, 0), One(QUOTE), Lit(")"), Opt({";"})>>,
       \* import\s+type\s+[\w\s{},*]+\s+from\s+['"].*?['"];?
       <<Lit("import"), Greedy(WS, 1), Lit("type"), Greedy(WS, 1),
         Greedy(IMPORT_CLASS, 1), Greedy(WS, 1), Lit("from"), Greedy(WS, 1),
         One(QUOTE), Lazy(ANY, 0), One(QUOTE), Opt({";"})>> >>

\* /\*.*?\*/ , //.*?(?:\n|$) , ".*?" , '.*?' : each searched on its own.
JS_COMMENT_PATTERNS ==
    << <<Lit("/"), Lit("*"), Lazy(ANY, 0), Lit("*"), Lit("/")>>,
       <<Lit("/"), Lit("/"), Lazy(ANY, 0), NlOrEnd>>,
       <<Lit(DQ), Lazy(ANY, 0), Lit(DQ)>>,
       <<Lit(SQ), Lazy(ANY, 0), Lit(SQ)>> >>

\* ^import\s+.*?$ | ^from\s+.*?\s+import\s+.*?$
PY_IMPORT_PATTERNS ==
    << <<Bol, Lit("import"), Greedy(WS, 1), Lazy(DOT, 0), Eol>>,
       <<Bol, Lit("from"), Greedy(WS, 1), Lazy(DOT, 0), Greedy(WS, 1), Lit("import"),
         Greedy(WS, 1), Lazy(DOT, 0), Eol>> >>

\* ^import.*?$ | ^.*?from.*?import.*?$
OTHER_IMPORT_PATTERNS ==
    << <<Bol, Lit("import"), Lazy(DOT, 0), Eol>>,
       <<Bol, Lazy(DOT, 0), Lit("from"), Lazy(DOT, 0), Lit("import"), Lazy(DOT, 0), Eol>> >>

\* Whether the span m lies inside a match of one of the comment and string
\* patterns (the inner loops of the javascript branch).
Covers(comment_matches, m) ==
    \E q \in 1..Len(comment_matches) :
        comment_matches[q][1] <= m[1] /\ m[2] <= comment_matches[q][2]

in_comment(content, m) ==
    \E p \in 1..Len(JS_COMMENT_PATTERNS) :
        Covers(re_finditer(<<JS_COMMENT_PATTERNS[p]>>, content), m)

\* The matches that are not inside a comment or string, in the order found.
RECURSIVE imports_to_check(_, _)
imports_to_check(content, all_imports) ==
    IF all_imports = <<>> THEN <<>>
    ELSE (IF in_comment(content, Head(all_imports)) THEN <<>> ELSE <<Head(all_imports)>>)
         \o imports_to_check(content, Tail(all_imports))

\* list.sort(key = end offset): a stable insertion sort.
RECURSIVE InsertByEnd(_, _)
InsertByEnd(sorted, m) ==
    IF sorted = <<>> THEN <<m>>
    ELSE IF sorted[Len(sorted)][2] <= m[2] THEN Append(sorted, m)
    ELSE Append(InsertByEnd(SubSeq(sorted, 1, Len(sorted) - 1), m), sorted[Len(sorted)])

RECURSIVE SortByEnd(_)
SortByEnd(ms) ==
    IF ms = <<>> THEN <<>>
    ELSE InsertByEnd(SortByEnd(SubSeq(ms, 1, Len(ms) - 1)), ms[Len(ms)])

\* re.search(r'\S', content[from:]): the offset of the first unit that is not
\* whitespace, or from itself when there is none.
SkipBy(content, from, n) == IF from + n < Len(content) THEN from + n ELSE from

SkipToNonSpace(content, from) == SkipBy(content, from, RunLen(content, from, WS))

\* What the loop would do without its newline count: it runs on to the first
\* unit that is not whitespace.
RECURSIVE ScanToNonSpace(_, _, _)
ScanToNonSpace(content, index, newline_count) ==
    IF index < Len(content) /\ content[index + 1] \in WS
    THEN ScanToNonSpace(content, index + 1, newline_count)
    ELSE index

\* The while loop of the python branch.
RECURSIVE ScanBlankLine(_, _, _)
ScanBlankLine(content, index, newline_count) ==
    IF index < Len(content)
    THEN IF content[index + 1] \in WS
         THEN IF content[index + 1] = NL
              THEN IF newline_count + 1 > 1
                   THEN index
                   ELSE ScanBlankLine(content, index + 1, newline_count + 1)
              ELSE ScanBlankLine(content, index + 1, newline_count)
         ELSE index
    ELSE index

\* What sorted[0] in place of sorted[-1] would give.
FirstEnd(sorted) == sorted[1][2]

\* sorted[-1], its end offset
LastEnd(sorted) == sorted[Len(sorted)][2]

\* The javascript branch, from `if imports_to_check:` on.
AfterLastJs(content, kept) ==
    IF kept # <<>> THEN SkipToNonSpace(content, LastEnd(SortByEnd(kept))) ELSE 0

\* The javascript branch, from `if not all_imports:` on.
AfterImportsJs(content, all_imports) ==
    IF all_imports = <<>> THEN 0
    ELSE AfterLastJs(content, imports_to_check(content, all_imports))

detect_js(content) == AfterImportsJs(content, re_finditer(JS_IMPORT_PATTERNS, content))

\* The python branch, from `if not all_imports:` on.
AfterImportsPy(content, all_imports) ==
    IF all_imports = <<>> THEN 0
    ELSE ScanBlankLine(content, LastEnd(SortByEnd(all_imports)), 0)

detect_python(content) == AfterImportsPy(content, re_finditer(PY_IMPORT_PATTERNS, content))

\* The fallback branch: matches[-1].end(), or 0.
AfterImportsOther(matches) == IF matches # <<>> THEN LastEnd(matches) ELSE 0

detect_other(content) == AfterImportsOther(re_finditer(OTHER_IMPORT_PATTERNS, content))

detect_import_blocks(content, language) ==
    IF language \in {"javascript", "typescript"} THEN detect_js(content)
    ELSE IF language = "python" THEN detect_python(content)
    ELSE detect_other(content)

(***************************************************************************)
(* The header reconciler: add_or_update_copyright on a content that was    *)
(* read.  It yields the status and extra of the return statement and, in   *)
(* write, whether the file is opened for writing and with what text.       *)
(***************************************************************************)
\* str.replace(old, new): every non-overlapping occurrence, left to right.
RECURSIVE Replace(_, _, _)
Replace(text, old, new) ==
    IF Len(text) < Len(old) \/ old = <<>> THEN text
    ELSE IF SubSeq(text, 1, Len(old)) = old
         THEN new \o Replace(SubSeq(text, Len(old) + 1, Len(text)), old, new)
         ELSE <<Head(text)>> \o Replace(Tail(text), old, new)

\* str.find("\n"): the offset of the first newline, -1 when there is none.
FindNewline(text) ==
    IF \E j \in 1..Len(text) : text[j] = NL
    THEN Min({j \in 1..Len(text) : text[j] = NL}) - 1
    ELSE -1

\* str.lstrip()
lstrip(text) == SliceFrom(text, RunLen(text, 0, WS))

\* str.startswith("#!")
StartsWithShebang(text) == Len(text) >= 2 /\ text[1] = "#" /\ text[2] = "!"

\* custom or DEFAULT
OrDefault(custom, default) == IF custom = NONE THEN default ELSE custom

Returned(status, extra, write, text) ==
    [status |-> status, extra |-> extra, write |-> write, modified_content |-> text]

\* The text written after a shebang line that ends at offset shebang_end.
AfterShebang(content, shebang_end, copyright_notice) ==
    Slice(content, 0, shebang_end) \o <<NL>> \o copyright_notice
    \o <<NL, NL>> \o SliceFrom(content, shebang_end)

\* The text written for the offset imports_end of the locator.
AfterImports(content, imports_end, copyright_notice) ==
    IF imports_end > 0
    THEN Slice(content, 0, imports_end) \o <<NL, NL>> \o copyright_notice
         \o <<NL, NL>> \o lstrip(SliceFrom(content, imports_end))
    ELSE copyright_notice \o <<NL, NL>> \o content

\* The text written when no header was found.
InsertHeader(content, language, copyright_notice) ==
    IF language = "python" /\ StartsWithShebang(content)
    THEN AfterShebang(content, FindNewline(content) + 1, copyright_notice)
    ELSE AfterImports(content, detect_import_blocks(content, language), copyright_notice)

\* What the comparison would do without its `and not force_update`: a header
\* of the current year is skipped whether or not --force is given.
ReconcileUnforced(content, language, force_update, found, copyright_notice) ==
    IF found.has /\ found.year = str(CURRENT_YEAR)
    THEN Returned("skipped", NONE, FALSE, content)
    ELSE IF found.has
    THEN Returned("updated", found.year, TRUE,
                  Replace(content, found.old_notice, copyright_notice))
    ELSE Returned("added", NONE, TRUE, InsertHeader(content, language, copyright_notice))

\* The function from the comparison of the years on, found being the result
\* of check_existing_copyright and copyright_notice the rendered template.
Reconcile(content, language, force_update, found, copyright_notice) ==
    IF found.has /\ found.year = str(CURRENT_YEAR) /\ ~force_update
    THEN Returned("skipped", NONE, FALSE, content)
    ELSE IF found.has
    THEN Returned("updated", found.year, TRUE,
                  Replace(content, found.old_notice, copyright_notice))
    ELSE Returned("added", NONE, TRUE, InsertHeader(content, language, copyright_notice))

\* get_copyright_template(language).format(year=CURRENT_YEAR, name=username, github=github)
Notice(language, custom_username, custom_github) ==
    get_copyright_template(language, str(CURRENT_YEAR),
                           OrDefault(custom_username, USERNAME),
                           OrDefault(custom_github, GITHUB))

\* The function from the language lookup on.
ReconcileIn(content, language, force_update, custom_username, custom_github) ==
    Reconcile(content, language, force_update,
              check_existing_copyright(content, language),
              Notice(language, custom_username, custom_github))

add_or_update_copyright(content, extension, force_update, custom_username, custom_github) ==
    IF should_ignore_file(content) THEN Returned("ignored", NONE, FALSE, content)
    ELSE ReconcileIn(content, get_language_from_extension(extension), force_update,
                     custom_username, custom_github)

\* The row of preview_changes for a content that was read: the branches on
\* the result found of check_existing_copyright.
PreviewOf(force_update, found) ==
    IF found.has /\ found.year = str(CURRENT_YEAR) /\ ~force_update THEN "Up to date"
    ELSE IF found.has THEN "Will update"
    ELSE "Will add copyright"

preview_changes(content, extension, force_update) ==
    IF should_ignore_file(content) THEN "Will be ignored"
    ELSE PreviewOf(force_update,
                   check_existing_copyright(content, get_language_from_extension(extension)))

(***************************************************************************)
(* The state: the files of one invocation of main, the file system, the    *)
(* command line, and the batch loop of main.                               *)
(***************************************************************************)
VARIABLES
    ext,              \* ext[f]: the extension of the path of file f of the list
    disk,             \* disk[f]: the content of file f on disk
    env,              \* env[f]: what the file system does to file f
    force_update,     \* args.force
    custom_username,  \* args.username, NONE when not given
    custom_github,    \* args.github, NONE when not given
    run,              \* which invocation of the tool this is
    pc,               \* "loop": in the for loop, "done": print_stats was called,
                      \* "crashed": an exception left main, "preview": in the
                      \* loop of preview_changes, "previewed": its table was printed
    i,                \* the position in the list of the file handled next
    stats,            \* the counters
    status,           \* status[f]: what add_or_update_copyright returned for f
    extra,            \* extra[f]: the extra_info returned with it
    writes,           \* writes[f]: how often this invocation opened f for writing
    report,           \* report[f]: the action the table of --preview shows for f
    before,           \* before[f]: the content of f when this invocation began
    first             \* first[f]: the status of f in the previous invocation

vars ==
    <<ext, disk, env, force_update, custom_username, custom_github, run, pc, i,
      stats, status, extra, writes, report, before, first>>

\* Bounds of the model.
MaxLinesJs == 3
MaxLinesPy == 3
MaxBlocks == 2
MaxFiles == 2
MaxRuns == 2

\* The texts made of at most n of the given lines, joined by newlines.
RECURSIVE JoinLines(_)
JoinLines(ls) ==
    IF ls = <<>> THEN <<>>
    ELSE IF Len(ls) = 1 THEN ls[1]
    ELSE ls[1] \o <<NL>> \o JoinLines(Tail(ls))

TextsOf(palette, n) ==
    {JoinLines(ls) : ls \in UNION {[1..k -> palette] : k \in 0..n}}

IMPORT_A == <<"import", SP, "a", SP, "from", SP, DQ, "a", DQ, ";">>
IMPORT_F == <<"import", SP, "f", SP, "from", SP, DQ, "f", DQ>>
STATEMENT == <<"x", ";">>

JsPalette ==
    { IMPORT_A,
      <<"/", "/", SP, "import", SP, "f", SP, "from", SP, SQ, "f", SQ>>,
      STATEMENT,
      <<"/", "/", SP, SQ>>,
      <<>>,
      <<SQ>> \o IMPORT_F \o <<SQ, ";">>,
      <<"/", "*", SP>> \o IMPORT_F \o <<SP, "*", "/">> }

PyPalette ==
    { <<"import", SP, "a">>,
      <<"from", SP, "a", SP, "import", SP, "b">>,
      <<"x">>,
      <<>>,
      <<"#", "!", "sh">>,
      <<SP>> }

Header(extension, year, name, github) ==
    get_copyright_template(get_language_from_extension(extension), year, name, github)

LineOf(extension) == StyleOf(get_language_from_extension(extension)).line

BlockOf(extension) == StyleOf(get_language_from_extension(extension))

HeaderPalette(extension) ==
    { Header(extension, str(CURRENT_YEAR - 1), USERNAME, GITHUB),
      Header(extension, str(CURRENT_YEAR), USERNAME, GITHUB),
      Header(extension, str(CURRENT_YEAR - 1), OTHER_NAME, OTHER_GITHUB),
      LineOf(extension) \o <<SP>> \o COPY_GLYPH \o <<str(CURRENT_YEAR - 1), SP, USERNAME>>,
      LineOf(extension) \o <<SP>> \o COPY_ASCII \o <<str(CURRENT_YEAR), SP, USERNAME>>,
      BlockOf(extension).block_start \o <<SP>> \o COPY_ASCII
          \o <<str(CURRENT_YEAR), SP, USERNAME, SP>> \o BlockOf(extension).block_end,
      LineOf(extension) \o <<SP, "credit-ignore">>,
      <<"/", "*", SP, SP, "credit-ignore", SP, "*", "/">>,
      <<"#", "credit-ignore">>,
      STATEMENT,
      <<"import", SP, "a">> }

IDENTITIES == {<<NONE, NONE>>, <<OTHER_NAME, NONE>>, <<NONE, OTHER_GITHUB>>}

File(e, c, v) == [ext |-> e, content |-> c, env |-> v]
Args(f, id) == [force |-> f, username |-> id[1], github |-> id[2]]

\* The invocations on one file the reconciler is examined on: sources
\* without a header, for the locator, and sources with headers and markers.
LocatorScenarios ==
    {[files |-> <<File(".js", c, "ok")>>, args |-> Args(FALSE, <<NONE, NONE>>)] :
        c \in TextsOf(JsPalette, MaxLinesJs)}
    \cup
    {[files |-> <<File(".py", c, "ok")>>, args |-> Args(FALSE, <<NONE, NONE>>)] :
        c \in TextsOf(PyPalette, MaxLinesPy)}

HeaderScenarios ==
    UNION {
        {[files |-> <<File(e, c, "ok")>>, args |-> Args(f, id)] :
            c \in TextsOf(HeaderPalette(e), MaxBlocks), f \in BOOLEAN, id \in IDENTITIES}
        : e \in {".js", ".py", ".txt"}}

\* The invocations on a list of files, each with its faults.
\* "latin1": the bytes of the file are no UTF-8, so that the first read raises
\* UnicodeDecodeError and the file is read again as latin-1, which decodes
\* any bytes.
ENVS == {"ok", "noread", "latin1", "noopen", "nowrite"}

BatchPalette ==
    { Header(".js", str(CURRENT_YEAR - 1), USERNAME, GITHUB),
      Header(".js", str(CURRENT_YEAR), USERNAME, GITHUB),
      <<"/", "/", SP, "credit-ignore">>,
      STATEMENT }

BatchFiles == {File(".js", c, v) : c \in BatchPalette, v \in ENVS}

BatchScenarios ==
    {[files |-> fs, args |-> Args(FALSE, <<NONE, NONE>>)] :
        fs \in UNION {[1..n -> BatchFiles] : n \in 1..MaxFiles}}

NewStats(n) ==
    [total |-> n, added |-> 0, updated |-> 0, skipped |-> 0, ignored |-> 0, errors |-> 0]

StartIn(sc, at) ==
    LET n == Len(sc.files)
    IN  /\ ext = [f \in 1..n |-> sc.files[f].ext]
        /\ disk = [f \in 1..n |-> sc.files[f].content]
        /\ env = [f \in 1..n |-> sc.files[f].env]
        /\ force_update = sc.args.force
        /\ custom_username = sc.args.username
        /\ custom_github = sc.args.github
        /\ run = 1
        /\ pc = at
        /\ i = 1
        /\ stats = NewStats(n)
        /\ status = [f \in 1..n |-> "none"]
        /\ extra = [f \in 1..n |-> NONE]
        /\ writes = [f \in 1..n |-> 0]
        /\ report = [f \in 1..n |-> "none"]
        /\ before = disk
        /\ first = [f \in 1..n |-> "none"]

\* main without --preview enters the batch loop.
Start(sc) == StartIn(sc, "loop")

Init == \E sc \in LocatorScenarios \cup HeaderScenarios : Start(sc)

BatchInit == \E sc \in BatchScenarios : Start(sc)

\* The invocations with --preview, with and without --force.
PreviewScenarios ==
    {[files |-> fs, args |-> Args(f, <<NONE, NONE>>)] :
        fs \in UNION {[1..n -> BatchFiles] : n \in 1..MaxFiles}, f \in BOOLEAN}

PreviewInit == \E sc \in PreviewScenarios : StartIn(sc, "preview")

(***************************************************************************)
(* The batch loop of main.                                                 *)
(***************************************************************************)
NFiles == Len(ext)

\* if status in stats: stats[status] += 1
Count(st, s) == IF s \in DOMAIN st THEN [st EXCEPT ![s] = @ + 1] ELSE st

\* What a write that fails after open(file_path, "w") truncated the file may
\* leave on disk: any part of the text short of all of it.
PartialWrites(text) == {Slice(text, 0, k) : k \in 0..(Len(text) - 1)}

\* What a loop that does not advance would do: the call returns and the
\* same file is up again.
ReturnsInPlace(f, s, x, content, w) ==
    /\ status' = [status EXCEPT ![f] = s]
    /\ extra' = [extra EXCEPT ![f] = x]
    /\ disk' = [disk EXCEPT ![f] = content]
    /\ writes' = [writes EXCEPT ![f] = @ + w]
    /\ stats' = Count(stats, s)
    /\ i' = i
    /\ pc' = pc

\* The call returns: the loop counts the status and goes on to the next file.
Returns(f, s, x, content, w) ==
    /\ status' = [status EXCEPT ![f] = s]
    /\ extra' = [extra EXCEPT ![f] = x]
    /\ disk' = [disk EXCEPT ![f] = content]
    /\ writes' = [writes EXCEPT ![f] = @ + w]
    /\ stats' = Count(stats, s)
    /\ i' = i + 1
    /\ pc' = pc

\* The call raises: nothing in add_or_update_copyright or main catches the
\* exception, which ends main.
Raises(f, content, w) ==
    /\ status' = [status EXCEPT ![f] = "raised"]
    /\ disk' = [disk EXCEPT ![f] = content]
    /\ writes' = [writes EXCEPT ![f] = @ + w]
    /\ pc' = "crashed"
    /\ UNCHANGED <<extra, stats, i>>

\* The call on file f, r being what the function does with the content read:
\* the read fails and the function returns "error" (a file that is no UTF-8
\* is read as latin-1 and handled like any other); or it returns without
\* writing; or open(file_path, "w") fails; or the write fails once the file
\* is open; or the text is written.
Call(f, r) ==
    IF env[f] = "noread" THEN Returns(f, "error", "str(e)", disk[f], 0)
    ELSE IF ~r.write THEN Returns(f, r.status, r.extra, disk[f], 0)
    ELSE IF env[f] = "noopen" THEN Raises(f, disk[f], 0)
    ELSE IF env[f] = "nowrite"
         THEN \E left \in PartialWrites(r.modified_content) : Raises(f, left, 1)
    ELSE Returns(f, r.status, r.extra, r.modified_content, 1)

\* One turn of the for loop: add_or_update_copyright on the next file of the
\* list, then the counting of its status.
ProcessFile ==
    /\ pc = "loop"
    /\ i <= NFiles
    /\ Call(i, add_or_update_copyright(disk[i], ext[i], force_update,
                                      custom_username, custom_github))
    /\ UNCHANGED <<ext, env, force_update, custom_username, custom_github, run,
                   report, before, first>>

\* The loop is over: print_stats(stats).
PrintStats ==
    /\ pc = "loop"
    /\ i > NFiles
    /\ pc' = "done"
    /\ UNCHANGED <<ext, disk, env, force_update, custom_username, custom_github, run,
                   i, stats, status, extra, writes, report, before, first>>

\* The tool is invoked again, with the same command line, in the same year.
Rerun ==
    /\ pc = "done"
    /\ run < MaxRuns
    /\ run' = run + 1
    /\ pc' = "loop"
    /\ i' = 1
    /\ stats' = NewStats(NFiles)
    /\ first' = status
    /\ status' = [f \in 1..NFiles |-> "none"]
    /\ extra' = [f \in 1..NFiles |-> NONE]
    /\ writes' = [f \in 1..NFiles |-> 0]
    /\ before' = disk
    /\ UNCHANGED <<ext, disk, env, force_update, custom_username, custom_github,
                   report>>

Next == ProcessFile \/ PrintStats \/ Rerun

(***************************************************************************)
(* main with --preview: preview_changes, then the return.                  *)
(***************************************************************************)
\* The row of file f: the read, as UTF-8 only, fails with the file system or
\* with the decoding; or the row is that of the content read.
Row(f) ==
    IF env[f] \in {"noread", "latin1"} THEN "Cannot read file"
    ELSE preview_changes(disk[f], ext[f], force_update)

\* One turn of the for loop of preview_changes.
PreviewFile ==
    /\ pc = "preview"
    /\ i <= NFiles
    /\ report' = [report EXCEPT ![i] = Row(i)]
    /\ i' = i + 1
    /\ UNCHANGED <<ext, disk, env, force_update, custom_username, custom_github, run,
                   pc, stats, status, extra, writes, before, first>>

\* The loop is over: the table is printed and main returns.
PrintPreview ==
    /\ pc = "preview"
    /\ i > NFiles
    /\ pc' = "previewed"
    /\ UNCHANGED <<ext, disk, env, force_update, custom_username, custom_github, run,
                   i, stats, status, extra, writes, report, before, first>>

\* The tool is invoked again on the same files with the same --force, now
\* without --preview.
Apply ==
    /\ pc = "previewed"
    /\ pc' = "loop"
    /\ i' = 1
    /\ UNCHANGED <<ext, disk, env, force_update, custom_username, custom_github, run,
                   stats, status, extra, writes, report, before, first>>

PreviewNext == PreviewFile \/ PrintPreview \/ Apply \/ Next

Spec == Init /\ [][Next]_vars

BatchSpec == BatchInit /\ [][Next]_vars

PreviewSpec == PreviewInit /\ [][PreviewNext]_vars

(***************************************************************************)
(* Properties.  before[f] is what add_or_update_copyright read from file f *)
(* in this invocation, disk[f] what the file holds now.                    *)
(***************************************************************************)
Files == 1..NFiles

Processed(f) == status[f] # "none"

LanguageOf(f) == get_language_from_extension(ext[f])

IsJs(f) == LanguageOf(f) \in {"javascript", "typescript"}

\* The header this invocation renders for file f.
NoticeOf(f) == Notice(LanguageOf(f), custom_username, custom_github)

\* What the detector finds in the content file f had.
FoundIn(f) == check_existing_copyright(before[f], LanguageOf(f))

Range(seq) == {seq[j] : j \in 1..Len(seq)}

\* The span <<start, end>> the detector matched: that of the first pattern
\* of the list that matches.
RECURSIVE FirstSpan(_, _, _)
FirstSpan(patterns, n, content) ==
    IF n > Len(patterns) THEN NoMatch
    ELSE IF re_search(<<patterns[n]>>, content) # NoMatch
         THEN re_search(<<patterns[n]>>, content)
         ELSE FirstSpan(patterns, n + 1, content)

HeaderSpan(f) == FirstSpan(HeaderPatterns(LanguageOf(f)), 1, before[f])

\* A comment opener, then any whitespace, then credit-ignore, anywhere.
OPENERS == {<<"/", "/">>, <<"#">>, <<"/", "*">>}

StartsAt(text, pos, s) ==
    pos + Len(s) <= Len(text) /\ Slice(text, pos, pos + Len(s)) = s

MarkerAt(text, a, o) ==
    /\ StartsAt(text, a, o)
    /\ \E b \in (a + Len(o))..(Len(text) - 1) :
          /\ text[b + 1] = "credit-ignore"
          /\ \A j \in (a + Len(o) + 1)..b : text[j] \in WS

HasIgnoreMarker(text) ==
    \E o \in OPENERS : \E a \in 0..Len(text) : MarkerAt(text, a, o)

\* C1: idempotence.  When the previous invocation returned "added" for a
\* file, the next invocation with the same command line, in the same year and
\* without --force, returns "skipped" for it and leaves its content as the
\* previous invocation left it.
C1_SecondRunSkips ==
    \A f \in Files :
        (run > 1 /\ first[f] = "added" /\ Processed(f) /\ ~force_update)
            => (status[f] = "skipped" /\ disk[f] = before[f])

\* C2: round trip of update.  A file without ignore marker whose owned header
\* carries last year is "updated" with that year as extra, and its new
\* content is its old content with the one matched span replaced by the
\* rendered header, every unit outside that span unchanged.
C2_UpdateReplacesOnlyTheSpan ==
    \A f \in Files :
        (/\ Processed(f)
         /\ ~HasIgnoreMarker(before[f])
         /\ FoundIn(f).has
         /\ FoundIn(f).year = str(CURRENT_YEAR - 1))
            => /\ status[f] = "updated"
               /\ extra[f] = str(CURRENT_YEAR - 1)
               /\ disk[f] = Slice(before[f], 0, HeaderSpan(f)[1]) \o NoticeOf(f)
                            \o SliceFrom(before[f], HeaderSpan(f)[2])

\* C3: ignore precedence.  A file that was read and holds an ignore marker
\* anywhere is "ignored" and is not written, whatever its language, its
\* headers and --force.
C3_IgnoreMarkerWins ==
    \A f \in Files :
        (Processed(f) /\ HasIgnoreMarker(before[f]))
            => (status[f] = "ignored" /\ writes[f] = 0 /\ disk[f] = before[f])

\* C3 happens: with --force, a file with an outdated owned header and an
\* ignore marker after it was ignored.
C3_Witness ==
    \E f \in Files :
        /\ status[f] = "ignored"
        /\ force_update
        /\ FoundIn(f).has
        /\ FoundIn(f).year = str(CURRENT_YEAR - 1)
        /\ HeaderSpan(f)[1] = 0
        /\ ~MarkerAt(before[f], 0, <<"/", "/">>)
        /\ HasIgnoreMarker(before[f])

\* Whether add_or_update_copyright, on the content file f had, goes on to
\* open the file for writing.
NeedsWrite(f) ==
    add_or_update_copyright(before[f], ext[f], force_update,
                            custom_username, custom_github).write

\* The processing of file f met a failure of the file system: the read
\* failed, or the write that was due failed.
Failed(f) ==
    /\ Processed(f)
    /\ \/ env[f] = "noread"
       \/ env[f] \in {"noopen", "nowrite"} /\ NeedsWrite(f)

\* C4: per-file errors never abort the batch.  Every file whose read or
\* write failed has the outcome "error", no exception ends the loop, and
\* when print_stats is reached every file of the list was processed.
C4_FailuresBecomeErrors ==
    /\ pc # "crashed"
    /\ \A f \in Files : Failed(f) => status[f] = "error"
    /\ pc = "done" => \A f \in Files : Processed(f)

\* C5: error reporting.  When print_stats is called after a batch in which
\* some file's outcome was "error", the errors counter is above zero.
C5_ErrorsAreCounted ==
    (pc = "done" /\ \E f \in Files : status[f] = "error") => stats.errors > 0

\* C6: file untouched on error.  A file whose read or write failed holds
\* afterwards exactly what it held before the call.
C6_FailureLeavesFileUntouched ==
    \A f \in Files : Failed(f) => disk[f] = before[f]

\* The offset at which the first line of text ends.
LineEnd(text) ==
    IF \E j \in 1..Len(text) : text[j] = NL
    THEN Min({j \in 1..Len(text) : text[j] = NL}) - 1
    ELSE Len(text)

\* What follows the first line and the newline that ends it.
AfterFirstLine(text) ==
    IF LineEnd(text) < Len(text) THEN SliceFrom(text, LineEnd(text) + 1) ELSE <<>>

\* C7: shebang precedence.  A python file that begins with #! and has
\* neither ignore marker nor owned header is "added" to, and is written as
\* its shebang line, a blank line, the rendered header, a blank line, and
\* the rest of its content after the shebang line.
C7_HeaderFollowsShebangLine ==
    \A f \in Files :
        (/\ Processed(f)
         /\ LanguageOf(f) = "python"
         /\ StartsWithShebang(before[f])
         /\ ~HasIgnoreMarker(before[f])
         /\ ~FoundIn(f).has)
            => /\ status[f] = "added"
               /\ disk[f] = Slice(before[f], 0, LineEnd(before[f])) \o <<NL, NL>>
                            \o NoticeOf(f) \o <<NL, NL>> \o AfterFirstLine(before[f])

\* The comments and string literals of javascript text as a lexer delimits
\* them, as spans <<start, end>>: a // comment runs to the end of its line, a
\* /* comment to the next */, a string to the next quote of its kind (or to
\* the end of its line), and none of them begins inside another.
RECURSIVE LexSpans(_, _, _, _)
LexSpans(text, pos, mode, start) ==
    IF pos >= Len(text)
    THEN IF mode = "code" THEN {} ELSE {<<start, Len(text)>>}
    ELSE LET u == text[pos + 1]
             v == IF pos + 1 < Len(text) THEN text[pos + 2] ELSE ""
         IN  CASE mode = "code" ->
                    IF u = "/" /\ v = "/" THEN LexSpans(text, pos + 2, "line", pos)
                    ELSE IF u = "/" /\ v = "*" THEN LexSpans(text, pos + 2, "block", pos)
                    ELSE IF u \in QUOTE THEN LexSpans(text, pos + 1, u, pos)
                    ELSE LexSpans(text, pos + 1, "code", 0)
               [] mode = "line" ->
                    IF u = NL
                    THEN {<<start, pos + 1>>} \cup LexSpans(text, pos + 1, "code", 0)
                    ELSE LexSpans(text, pos + 1, "line", start)
               [] mode = "block" ->
                    IF u = "*" /\ v = "/"
                    THEN {<<start, pos + 2>>} \cup LexSpans(text, pos + 2, "code", 0)
                    ELSE LexSpans(text, pos + 1, "block", start)
               [] OTHER ->
                    IF u = mode
                    THEN {<<start, pos + 1>>} \cup LexSpans(text, pos + 1, "code", 0)
                    ELSE IF u = NL
                    THEN {<<start, pos>>} \cup LexSpans(text, pos + 1, "code", 0)
                    ELSE LexSpans(text, pos + 1, mode, start)

Inside(m, spans) == \E sp \in spans : sp[1] <= m[1] /\ m[2] <= sp[2]

\* The import-like matches that lie in no comment and in no string.
RealImports(text) ==
    {m \in Range(re_finditer(JS_IMPORT_PATTERNS, text)) :
        ~Inside(m, LexSpans(text, 0, "code", 0))}

\* The offset of the first unit after offset e that is not whitespace, or e
\* when only whitespace or nothing follows.
FirstNonSpaceAfter(text, e) ==
    IF \E j \in (e + 1)..Len(text) : text[j] \notin WS
    THEN Min({j \in (e + 1)..Len(text) : text[j] \notin WS}) - 1
    ELSE e

\* C8: no false match inside strings and comments.  For the javascript and
\* typescript content a header was added to, the locator discards exactly
\* the import-like matches that lie inside a comment or a string: its offset
\* is 0 when no other match is left and is else taken from the last of the
\* real imports.
C8_LocatorSeesOnlyRealImports ==
    \A f \in Files :
        (IsJs(f) /\ status[f] = "added") =>
            detect_import_blocks(before[f], LanguageOf(f)) =
                IF RealImports(before[f]) = {} THEN 0
                ELSE FirstNonSpaceAfter(before[f],
                                        Max({m[2] : m \in RealImports(before[f])}))

\* The import-like matches the locator keeps.
KeptImports(text) ==
    {m \in Range(re_finditer(JS_IMPORT_PATTERNS, text)) : ~in_comment(text, m)}

LastKeptEnd(text) == Max({m[2] : m \in KeptImports(text)})

\* The text from the first unit after offset e that is not whitespace on.
StatementsAfter(text, e) ==
    IF \E j \in (e + 1)..Len(text) : text[j] \notin WS
    THEN SliceFrom(text, FirstNonSpaceAfter(text, e))
    ELSE <<>>

\* C9: insertion point, javascript family.  For content with a kept import
\* the locator returns the offset of the first unit that is not whitespace
\* after the kept import that ends last (that end when nothing but
\* whitespace follows), and a file "added" to is written as its content up
\* to that offset, a blank line, the rendered header, one blank line, and
\* the statements that followed the imports.
C9_HeaderAfterLastImport ==
    \A f \in Files :
        (IsJs(f) /\ KeptImports(before[f]) # {}) =>
            /\ detect_import_blocks(before[f], LanguageOf(f)) =
                   FirstNonSpaceAfter(before[f], LastKeptEnd(before[f]))
            /\ status[f] = "added" =>
                   disk[f] = Slice(before[f], 0,
                                   FirstNonSpaceAfter(before[f], LastKeptEnd(before[f])))
                             \o <<NL, NL>> \o NoticeOf(f) \o <<NL, NL>>
                             \o StatementsAfter(before[f], LastKeptEnd(before[f]))

\* C9 happens: a header was added to a javascript file with two kept imports
\* and a statement after them.
C9_Witness ==
    \E f \in Files :
        /\ IsJs(f)
        /\ status[f] = "added"
        /\ Cardinality(KeptImports(before[f])) = 2
        /\ StatementsAfter(before[f], LastKeptEnd(before[f])) = STATEMENT

PyImports(text) == Range(re_finditer(PY_IMPORT_PATTERNS, text))

LastPyEnd(text) == Max({m[2] : m \in PyImports(text)})

\* How many newlines text holds from offset a up to offset b.
NewlinesIn(text, a, b) == Cardinality({j \in (a + 1)..b : text[j] = NL})

\* C10: insertion point, python.  For content with an import line the
\* locator returns an offset r at or after the end E of the import line that
\* ends last, with nothing but whitespace and at most one newline between E
\* and r, and r is the content length, or the offset of a unit that is not
\* whitespace, or the offset of the second newline after E.
C10_StopsAtBlankLine ==
    \A f \in Files :
        (LanguageOf(f) = "python" /\ PyImports(before[f]) # {}) =>
            LET text == before[f]
                E == LastPyEnd(before[f])
                r == detect_import_blocks(before[f], "python")
            IN  /\ E <= r /\ r <= Len(text)
                /\ \A j \in (E + 1)..r : text[j] \in WS
                /\ NewlinesIn(text, E, r) <= 1
                /\ \/ r = Len(text)
                   \/ text[r + 1] \notin WS
                   \/ text[r + 1] = NL /\ NewlinesIn(text, E, r) = 1

\* C10 happens: a header was added to a python file whose import line is
\* followed by a blank line and a statement, at the blank line.
C10_Witness ==
    \E f \in Files :
        /\ LanguageOf(f) = "python"
        /\ status[f] = "added"
        /\ ~StartsWithShebang(before[f])
        /\ PyImports(before[f]) # {}
        /\ detect_import_blocks(before[f], "python") = LastPyEnd(before[f]) + 1
        /\ SliceFrom(before[f], LastPyEnd(before[f])) = <<NL, NL, "x">>

\* The header found in the content of file f is of the current year and no
\* update is forced.
UpToDate(f) ==
    FoundIn(f).has /\ FoundIn(f).year = str(CURRENT_YEAR) /\ ~force_update

\* C11: skip or update.  For a file that was read and holds no ignore marker:
\* it is "skipped", and not written, exactly when an owned header is found
\* whose year is the current year and --force is not given; it is "updated"
\* in every other case in which an owned header is found; and it is "added"
\* to only when no owned header is found.
C11_SkipOrUpdate ==
    \A f \in Files :
        (Processed(f) /\ ~HasIgnoreMarker(before[f])) =>
            /\ UpToDate(f) <=> status[f] = "skipped"
            /\ status[f] = "skipped" => (writes[f] = 0 /\ disk[f] = before[f])
            /\ (FoundIn(f).has /\ ~UpToDate(f)) <=> status[f] = "updated"
            /\ status[f] = "added" => ~FoundIn(f).has

\* C11 happens: with --force, a file whose owned header is of the current
\* year was updated, and written once.
C11_Witness ==
    \E f \in Files :
        /\ status[f] = "updated"
        /\ force_update
        /\ FoundIn(f).year = str(CURRENT_YEAR)
        /\ writes[f] = 1

\* The extensions of the table, and some that no language lists.
LISTED == UNION {SUPPORTED_EXTENSIONS[n][2] : n \in 1..Len(SUPPORTED_EXTENSIONS)}

UNLISTED == {".txt", "", ".JS", ".md"}

Lists(language, extension) ==
    \E n \in 1..Len(SUPPORTED_EXTENSIONS) :
        SUPPORTED_EXTENSIONS[n][1] = language /\ extension \in SUPPORTED_EXTENSIONS[n][2]

\* What the call on file f would do, were the extension of f .js.
AsJavascript(f) ==
    add_or_update_copyright(before[f], ".js", force_update, custom_username, custom_github)

\* C12: unknown extension fallback.  get_language_from_extension gives, for
\* every extension, the language that lists it, and "javascript" when none
\* does; a file with an unlisted extension is then detected and rendered with
\* the comment style /* */ and //, so that it fares as a .js file of the same
\* content does.
C12_UnknownExtensionIsJavascript ==
    /\ \A e \in LISTED : Lists(get_language_from_extension(e), e)
    /\ \A e \in UNLISTED : get_language_from_extension(e) = "javascript"
    /\ \A f \in Files :
          (ext[f] \notin LISTED) =>
              /\ StyleOf(LanguageOf(f)) =
                     [block_start |-> <<"/", "*">>, block_end |-> <<"*", "/">>,
                      line |-> <<"/", "/">>]
              /\ FoundIn(f) = check_existing_copyright(before[f], "javascript")
              /\ Processed(f) =>
                     /\ status[f] = AsJavascript(f).status
                     /\ extra[f] = AsJavascript(f).extra
                     /\ disk[f] = IF AsJavascript(f).write
                                  THEN AsJavascript(f).modified_content
                                  ELSE before[f]

\* C12 happens: a file with an unlisted extension that held last year's
\* header in /* */ was updated, and now begins with this year's in /* */.
C12_Witness ==
    \E f \in Files :
        /\ ext[f] \notin LISTED
        /\ status[f] = "updated"
        /\ extra[f] = str(CURRENT_YEAR - 1)
        /\ HeaderSpan(f)[1] = 0
        /\ StartsAt(disk[f], 0, <<"/", "*", NL, "Copyright", SP, "©", SP, str(CURRENT_YEAR)>>)

\* The offset at which mark first occurs in text at or after offset from,
\* the length of text when it does not.
FirstAt(text, mark, from) ==
    IF \E q \in from..Len(text) : StartsAt(text, q, mark)
    THEN Min({q \in from..Len(text) : StartsAt(text, q, mark)})
    ELSE Len(text)

\* The delimiter that ends the header a matched text begins with: the block
\* end for a block comment, the end of the line for a line comment.
EndMarkOf(matched, style) ==
    IF StartsAt(matched, 0, style.block_start) THEN style.block_end ELSE <<NL>>

OpenerOf(matched, style) ==
    IF StartsAt(matched, 0, style.block_start) THEN style.block_start ELSE style.line

\* The owner name occurs in the matched text before the header it begins
\* with ends.
OwnerInHeader(matched, style) ==
    \E j \in 1..FirstAt(matched, EndMarkOf(matched, style),
                        Len(OpenerOf(matched, style))) :
        matched[j] = USERNAME

\* C13: ownership scoping.  A header is found in a file only when the owner
\* name stands in that header itself, between its copyright line and its own
\* end delimiter: a copyright comment without the owner name is not found,
\* whatever follows it in the file.
C13_OwnerNameInsideTheHeader ==
    \A f \in Files :
        (Processed(f) /\ FoundIn(f).has) =>
            OwnerInHeader(FoundIn(f).old_notice, StyleOf(LanguageOf(f)))

\* The leftmost match of the n-th pattern of the list in the content of f.
PatternMatch(f, n) == re_search(<<HeaderPatterns(LanguageOf(f))[n]>>, before[f])

MatchingPatterns(f) == {n \in 1..4 : PatternMatch(f, n) # NoMatch}

\* The text the leftmost match of the n-th pattern covers.
MatchedText(f, n) == Slice(before[f], PatternMatch(f, n)[1], PatternMatch(f, n)[2])

MarkOf(n) == IF n \in {1, 3} THEN COPY_GLYPH ELSE COPY_ASCII

\* The year of a matched text: the unit after the copyright mark.
YearAfterMark(text, mark) == text[FirstAt(text, mark, 0) + Len(mark) + 1]

\* The pattern begins with the given comment opener and holds the given mark.
IsPatternOf(pattern, opener, mark) ==
    /\ SubSeq(pattern, 1, Len(opener)) = Lits(opener)
    /\ \E j \in 1..Len(pattern) : SubSeq(pattern, j, j + Len(mark) - 1) = Lits(mark)

\* The four patterns are, in order: block with the sign, block with (c),
\* line with the sign, line with (c).
InPriorityOrder(patterns, style) ==
    /\ Len(patterns) = 4
    /\ IsPatternOf(patterns[1], style.block_start, COPY_GLYPH)
    /\ IsPatternOf(patterns[2], style.block_start, COPY_ASCII)
    /\ IsPatternOf(patterns[3], style.line \o <<SP>>, COPY_GLYPH)
    /\ IsPatternOf(patterns[4], style.line \o <<SP>>, COPY_ASCII)

\* found is what the patterns numbered in matching, the first of them
\* before the others, make of the content of f.
FirstOfMatching(f, found, matching) ==
    IF matching = {} THEN found = NotFound
    ELSE /\ found.has
         /\ found.old_notice = MatchedText(f, Min(matching))
         /\ found.year = YearAfterMark(found.old_notice, MarkOf(Min(matching)))
         /\ (Processed(f) /\ ~HasIgnoreMarker(before[f]) /\ status[f] = "updated")
                => extra[f] = found.year

\* C14: detector priority.  The patterns are, in order, block with the sign,
\* block with (c), line with the sign, line with (c); the detector returns
\* the year and the text of the leftmost match of the first pattern in that
\* order that matches, wherever later patterns match, and returns not found
\* only when none of the four matches.
C14_FirstPatternInOrderWins ==
    \A f \in Files :
        /\ InPriorityOrder(HeaderPatterns(LanguageOf(f)), StyleOf(LanguageOf(f)))
        /\ FirstOfMatching(f, FoundIn(f), MatchingPatterns(f))

\* C14 happens: a file was updated for last year's block header with the
\* sign, although a block header with (c) of this year stands before it.
C14_Witness ==
    \E f \in Files :
        /\ status[f] = "updated"
        /\ ~force_update
        /\ extra[f] = str(CURRENT_YEAR - 1)
        /\ PatternMatch(f, 2) # NoMatch
        /\ PatternMatch(f, 1) # NoMatch
        /\ PatternMatch(f, 2)[1] < PatternMatch(f, 1)[1]

\* Something of file f changes in this step of the run: its outcome, its
\* content, or the count of its writes.
Touched(f) ==
    /\ run' = run
    /\ status'[f] # status[f] \/ disk'[f] # disk[f] \/ writes'[f] # writes[f]

\* File f has its turn in this step: it is the file the loop is at, every
\* file before it in the list had its turn and none after it, it was not
\* handled before in this run, it gets its outcome from the content it held
\* when the run began and is written once at most, and the loop moves on to
\* the file after it (or the run ends with an exception).
HasItsTurn(f) ==
    /\ pc = "loop" /\ f = i
    /\ \A g \in Files : g < f <=> Processed(g)
    /\ \A g \in Files : g >= f => (writes[g] = 0 /\ disk[g] = before[g])
    /\ status'[f] # "none"
    /\ writes'[f] <= 1
    /\ \A g \in Files \ {f} :
          status'[g] = status[g] /\ disk'[g] = disk[g] /\ writes'[g] = writes[g]
    /\ i' = i + 1 \/ pc' = "crashed"

\* C15: strictly sequential batch.  Within a run, whenever anything of a file
\* changes, that file has its one turn: the files are handled in the order
\* of the list, each is read, gets its outcome and is written at most once
\* before the next is read, and none is handled a second time.
C15_OneTurnPerFileInOrder ==
    [][\A f \in Files : Touched(f) => HasItsTurn(f)]_vars

\* C15 happens: a run over two files is over, the first of which was
\* written and the second of which was not.
C15_Witness ==
    /\ pc = "done"
    /\ NFiles = 2
    /\ status[1] \in {"added", "updated"} /\ writes[1] = 1
    /\ status[2] \in {"skipped", "ignored", "error"} /\ writes[2] = 0

\* C16: counter conservation.  When print_stats is called at the end of a
\* batch, the outcome counters add up to the total: every file of the list
\* is counted in exactly one of them.
C16_CountersAddUp ==
    pc = "done" =>
        /\ stats.total = NFiles
        /\ stats.added + stats.updated + stats.skipped + stats.ignored + stats.errors
               = stats.total

\* At how many offsets part occurs in text.
Occurrences(text, part) ==
    Cardinality({q \in 0..Len(text) : StartsAt(text, q, part)})

\* text without its leading whitespace.
WithoutLeadingSpace(text) ==
    IF \E j \in 1..Len(text) : text[j] \notin WS
    THEN SubSeq(text, Min({j \in 1..Len(text) : text[j] \notin WS}), Len(text))
    ELSE <<>>

\* written is original split at offset k, with the header and the separators
\* between the two parts: before the header two newlines, one newline (after
\* a shebang line) or nothing (at the top of the file), after it two
\* newlines; the second part as it was or without its leading whitespace.
SplicedAt(written, original, header, k) ==
    \E sep \in {<<>>, <<NL>>, <<NL, NL>>} :
        \E suffix \in {SliceFrom(original, k), WithoutLeadingSpace(SliceFrom(original, k))} :
            written = Slice(original, 0, k) \o sep \o header \o <<NL, NL>> \o suffix

\* The header was spliced into the content file f had, at some offset.
HeaderSpliced(f) ==
    \E k \in 0..Len(before[f]) : SplicedAt(disk[f], before[f], NoticeOf(f), k)

\* C17: added preserves the original content.  A file "added" to is written
\* as its content split at one offset, with the rendered header and the
\* blank-line separators between the parts and at most the leading
\* whitespace of the second part removed, and the header occurs exactly once
\* in what is written.
C17_AddedSplicesOneHeader ==
    \A f \in Files :
        status[f] = "added" =>
            (HeaderSpliced(f) /\ Occurrences(disk[f], NoticeOf(f)) = 1)

\* The row of the preview and the outcome of the run say the same.
Agrees(row, outcome) ==
    \/ row = "Will be ignored" /\ outcome = "ignored"
    \/ row = "Up to date" /\ outcome = "skipped"
    \/ row = "Will update" /\ outcome = "updated"
    \/ row = "Will add copyright" /\ outcome = "added"
    \/ row = "Cannot read file" /\ outcome = "error"

\* C18: preview agrees with the run.  preview_changes writes to no file,
\* and for every file the action of its row is the outcome that
\* add_or_update_copyright returns for the file, with the same --force, in
\* the run that follows the preview.
C18_PreviewAgreesWithRun ==
    /\ pc \in {"preview", "previewed"} =>
           \A f \in Files : disk[f] = before[f] /\ writes[f] = 0
    /\ \A f \in Files :
           (run = 1 /\ report[f] # "none" /\ status[f] \notin {"none", "raised"})
               => Agrees(report[f], status[f])

====
